---- MODULE Spec2Model ----
(***************************************************************************)
(* Model of the twobit package: the 2-bit base codec (Pack, Unpack),       *)
(* the run detector (mapBlocks), the Writer (Add, WriteTo) and the Reader  *)
(* (NewReader, Length, LengthNoN, NBlocks, Read, ReadRange) over a byte    *)
(* source with a seek cursor, also in a session of several queries, with   *)
(* two goroutines sharing the Reader, and over a source that fails.  Bytes *)
(* are integers 0..255, strings are sequences of bytes, Go maps are TLA+   *)
(* functions.                                                              *)
(***************************************************************************)
EXTENDS Integers, Sequences, FiniteSets, TLC

VARIABLES
    in,         \* codec: the string handed to Pack / mapBlocks
    packRes,    \* codec: what Pack returned
    unpackRes,  \* codec: what Unpack returned
    blocksRes,  \* codec: what the two mapBlocks calls of Add returned
    cpc,        \* codec: position of the Pack/Unpack/mapBlocks run
    records,    \* writer: Writer.records, name -> seqRecord
    added,      \* writer: the string of the last successful Add per name
    addErr,     \* writer: error of the last Writer call
    out,        \* writer: the bytes WriteTo wrote to its sink
    source,     \* reader: the bytes of the io.ReadSeeker
    pos,        \* reader: the seek cursor of the io.ReadSeeker
    rd,         \* reader: the Reader (hdr and index)
    openErr,    \* reader: what NewReader returned
    last,       \* reader: the last query and what it returned
    calls,      \* reader: the number of queries completed on the Reader
    th,         \* two goroutines in ReadRange on one Reader: their locals
    mixed,      \* whether a goroutine stepped while the other was in its call
    fault       \* failing source: the complete bytes and which Seek failed

codecVars  == <<in, packRes, unpackRes, blocksRes, cpc>>
writerVars == <<records, added, addErr, out>>
readerVars == <<source, pos, rd, openErr, last>>
otherVars == <<calls, th, mixed, fault>>
vars == <<in, packRes, unpackRes, blocksRes, cpc, records, added, addErr, out,
          source, pos, rd, openErr, last, calls, th, mixed, fault>>

(***************************************************************************)
(* Bounds                                                                  *)
(***************************************************************************)
MaxLen == 4
MaxAddLen == 2

(***************************************************************************)
(* Constants of the package                                                *)
(***************************************************************************)
SIG == 440477507
BASE_N == 78
BASE_T == 84
BASE_C == 67
BASE_A == 65
BASE_G == 71
LowerShift == 32

BYTES2NT == (0 :> BASE_T) @@ (1 :> BASE_C) @@ (2 :> BASE_A) @@ (3 :> BASE_G)

NT2BYTES ==
    (BASE_N :> 0) @@ (BASE_T :> 0) @@ (BASE_C :> 1) @@ (BASE_A :> 2) @@
    (BASE_G :> 3) @@ (BASE_N + 32 :> 0) @@ (BASE_T + 32 :> 0) @@
    (BASE_C + 32 :> 1) @@ (BASE_A + 32 :> 2) @@ (BASE_G + 32 :> 3)

Nil == "nil"
ErrUnsupportedBase == "Unsupported base"

\* the symbols strings are drawn from: the ten recognised ones and 'X'
Alphabet == DOMAIN NT2BYTES \cup {88}

\* F(v), with v evaluated once and handed on as a value
Eager(v, F(_)) == CHOOSE r \in {F(x) : x \in {v}} : TRUE

RECURSIVE SeqsUpTo(_, _)
SeqsUpTo(S, n) ==
    IF n = 0 THEN {<< >>}
    ELSE LET prev == SeqsUpTo(S, n - 1)
         IN  prev \cup {Append(s, x) : s \in {p \in prev : Len(p) = n - 1}, x \in S}

(***************************************************************************)
(* packedSize, Pack, Unpack                                                *)
(***************************************************************************)
packedSize(dnaSize) == (dnaSize + 3) \div 4

\* a variant of the inner loop that shifts after it adds the code
RECURSIVE PackByteShiftAfter(_, _, _, _)
PackByteShiftAfter(s, i, j, b) ==
    IF j = 4 THEN b
    ELSE LET idx == 4 * i + j
             val == IF idx < Len(s) THEN NT2BYTES[s[idx + 1]] ELSE NT2BYTES[BASE_T]
         IN  PackByteShiftAfter(s, i, j + 1, ((b + val) * 4) % 256)

\* one pass of Pack's inner loop: slots j..3 of output byte i, b the byte so far
RECURSIVE PackByte(_, _, _, _)
PackByte(s, i, j, b) ==
    IF j = 4 THEN b
    ELSE LET idx == 4 * i + j
             val == IF idx < Len(s) THEN NT2BYTES[s[idx + 1]] ELSE NT2BYTES[BASE_T]
         IN  PackByte(s, i, j + 1, (((b * 4) % 256) + val) % 256)

Pack(s) ==
    IF \E k \in 1..Len(s) : s[k] \notin DOMAIN NT2BYTES
    THEN [err |-> ErrUnsupportedBase, bytes |-> << >>]
    ELSE [err |-> Nil,
          bytes |-> [i \in 1..packedSize(Len(s)) |-> PackByte(s, i - 1, 0, 0)]]

\* the four symbols of one packed byte: slot j takes the two low bits, then base >>= 2
RECURSIVE DecodeByte(_, _, _)
DecodeByte(base, j, buf) ==
    IF j < 0 THEN buf
    ELSE DecodeByte(base \div 4, j - 1, [buf EXCEPT ![j + 1] = BYTES2NT[base % 4]])

RECURSIVE DecodeAll(_, _)
DecodeAll(raw, k) ==
    IF k > Len(raw) THEN << >>
    ELSE DecodeByte(raw[k], 3, <<0, 0, 0, 0>>) \o DecodeAll(raw, k + 1)

\* a variant that does not cut the decoded symbols to sz
UnpackNoTruncate(raw, sz) == DecodeAll(raw, 1)

Unpack(raw, sz) == SubSeq(DecodeAll(raw, 1), 1, sz)

(***************************************************************************)
(* mapBlocks                                                               *)
(***************************************************************************)
IsN(r) == r = 78 \/ r = 110
IsLower(r) == r >= 97 /\ r <= 122
Check(kind, r) == IF kind = "N" THEN IsN(r) ELSE IsLower(r)

\* a variant that drops the run still open at the end of the sequence
RECURSIVE mapBlocksLoopNoTail(_, _, _, _, _, _)
mapBlocksLoopNoTail(seq, kind, i, start, isLast, blocks) ==
    IF i >= Len(seq) THEN blocks
    ELSE LET match == Check(kind, seq[i + 1])
         IN  IF match
             THEN mapBlocksLoopNoTail(seq, kind, i + 1, IF ~isLast THEN i ELSE start, match,
                                      blocks)
             ELSE mapBlocksLoopNoTail(seq, kind, i + 1, start, match,
                                      IF isLast THEN (start :> (i - start)) @@ blocks
                                      ELSE blocks)

RECURSIVE mapBlocksLoop(_, _, _, _, _, _)
mapBlocksLoop(seq, kind, i, start, isLast, blocks) ==
    IF i >= Len(seq)
    THEN IF isLast THEN (start :> (Len(seq) - start)) @@ blocks ELSE blocks
    ELSE LET match == Check(kind, seq[i + 1])
         IN  IF match
             THEN mapBlocksLoop(seq, kind, i + 1, IF ~isLast THEN i ELSE start, match, blocks)
             ELSE mapBlocksLoop(seq, kind, i + 1, start, match,
                                IF isLast THEN (start :> (i - start)) @@ blocks ELSE blocks)

mapBlocks(seq, kind) == mapBlocksLoop(seq, kind, 0, 0, FALSE, << >>)

(***************************************************************************)
(* Codec run: Pack(in), Unpack(Pack(in), len(in)), mapBlocks(in, ...)      *)
(***************************************************************************)
\* values of the variables before the first call
NoPack == [err |-> "none", bytes |-> << >>]
NoBlocks == [n |-> << >>, m |-> << >>]
NoCall == [op |-> "none", name |-> << >>, seq |-> << >>, err |-> "none"]
NoQuery == [op |-> "none", name |-> << >>, start |-> 0, end |-> 0, err |-> "none",
            num |-> 0, blocks |-> << >>, str |-> << >>]

CodecIdle ==
    in = << >> /\ packRes = NoPack /\ unpackRes = << >> /\ blocksRes = NoBlocks /\ cpc = "idle"
WriterIdle == records = << >> /\ added = << >> /\ addErr = NoCall /\ out = << >>
ReaderIdle == source = << >> /\ pos = 0 /\ rd = "none" /\ openErr = "none" /\ last = NoQuery
NoFault == [full |-> << >>, abs |-> FALSE, rel |-> FALSE]
OtherIdle == calls = 0 /\ th = << >> /\ mixed = FALSE /\ fault = NoFault

\* "ACTgcctttnnnNantnaCgc", "ACcgcgcgcgcgcg", "ACTg", "AC": the strings of TestPack
TestSeqs ==
    { <<65, 67, 84, 103, 99, 99, 116, 116, 116, 110, 110, 110, 78, 97, 110, 116, 110,
        97, 67, 103, 99>>,
      <<65, 67, 99, 103, 99, 103, 99, 103, 99, 103, 99, 103, 99, 103>>,
      <<65, 67, 84, 103>>,
      <<65, 67>> }

InitCodec ==
    /\ in \in SeqsUpTo(Alphabet, MaxLen) \cup TestSeqs
    /\ packRes = NoPack
    /\ unpackRes = << >>
    /\ blocksRes = NoBlocks
    /\ cpc = "start"
    /\ WriterIdle
    /\ ReaderIdle
    /\ OtherIdle

CallPack ==
    /\ cpc = "start"
    /\ packRes' = Pack(in)
    /\ cpc' = "packed"
    /\ UNCHANGED <<in, unpackRes, blocksRes, writerVars, readerVars, otherVars>>

CallUnpack ==
    /\ cpc = "packed"
    /\ packRes.err = Nil
    /\ unpackRes' = Unpack(packRes.bytes, Len(in))
    /\ cpc' = "unpacked"
    /\ UNCHANGED <<in, packRes, blocksRes, writerVars, readerVars, otherVars>>

CallMapBlocks ==
    /\ cpc = "unpacked" \/ (cpc = "packed" /\ packRes.err # Nil)
    /\ blocksRes' = [n |-> mapBlocks(in, "N"), m |-> mapBlocks(in, "M")]
    /\ cpc' = "mapped"
    /\ UNCHANGED <<in, packRes, unpackRes, writerVars, readerVars, otherVars>>

NextCodec == CallPack \/ CallUnpack \/ CallMapBlocks

SpecCodec == InitCodec /\ [][NextCodec]_vars

(***************************************************************************)
(* Byte order helpers (encoding/binary)                                    *)
(***************************************************************************)
\* binary.LittleEndian.PutUint32 / binary.BigEndian.PutUint32 on b[off:]
PutUint32(b, off, v, order) ==
    LET b0 == v % 256
        b1 == (v \div 256) % 256
        b2 == (v \div 65536) % 256
        b3 == (v \div 16777216) % 256
    IN  IF order = "LE"
        THEN [b EXCEPT ![off + 1] = b0, ![off + 2] = b1, ![off + 3] = b2, ![off + 4] = b3]
        ELSE [b EXCEPT ![off + 1] = b3, ![off + 2] = b2, ![off + 3] = b1, ![off + 4] = b0]

\* ByteOrder.Uint32 on the four bytes b[off:off+4].  A word of 2^30 or more
\* stands as 2^30 - 1: the code uses a word as a count, a size or a position
\* in a source of a few hundred bytes, and compares the header words with
\* smaller constants, so every such word acts alike.
Uint32(b, off, order) ==
    IF (IF order = "LE" THEN b[off + 4] ELSE b[off + 1]) >= 64
    THEN 1073741823
    ELSE IF order = "LE"
    THEN b[off + 1] + 256 * b[off + 2] + 65536 * b[off + 3] + 16777216 * b[off + 4]
    ELSE b[off + 4] + 256 * b[off + 3] + 65536 * b[off + 2] + 16777216 * b[off + 1]

(***************************************************************************)
(* Writer: NewWriter, Add, WriteTo                                         *)
(***************************************************************************)
Names == {<<97>>, <<98>>}

\* the symbols Add is called with: 'g' (masked base), 'N' and the unsupported 'X'
AddAlphabet == {BASE_G + 32, BASE_N, 88}

\* a variant that stores the record before it looks at Pack's error
AddStoreFirst(recs, name, seq) ==
    LET nB == mapBlocks(seq, "N")
        mB == mapBlocks(seq, "M")
        p  == Pack(seq)
    IN  [err |-> p.err,
         records |-> (name :> [dnaSize |-> Len(seq), nBlocks |-> nB, mBlocks |-> mB,
                               reserved |-> 0, sequence |-> p.bytes]) @@ recs]

\* what Add(name, seq) returns and the records it leaves
AddStorePacked(recs, name, seq) ==
    LET nB == mapBlocks(seq, "N")
        mB == mapBlocks(seq, "M")
        p  == Pack(seq)
    IN  IF p.err # Nil
        THEN [err |-> p.err, records |-> recs]
        ELSE [err |-> Nil,
              records |-> (name :> [dnaSize |-> Len(seq), nBlocks |-> nB, mBlocks |-> mB,
                                    reserved |-> 0, sequence |-> p.bytes]) @@ recs]

\* the 16 bytes WriteTo builds, statement by statement
WriteToHeader(recs) ==
    LET h0 == [i \in 1..16 |-> 0]
        h1 == PutUint32(h0, 0, SIG, "LE")
        h2 == PutUint32(h1, 4, 0, "LE")
        h3 == PutUint32(h2, 8, Cardinality(DOMAIN recs), "LE")
        h4 == PutUint32(h3, 8, 0, "LE")
    IN  h4

InitWriter ==
    /\ records = << >>
    /\ added = << >>
    /\ addErr = NoCall
    /\ out = << >>
    /\ CodecIdle
    /\ ReaderIdle
    /\ OtherIdle

NewWriter ==
    /\ records' = << >>
    /\ added' = << >>
    /\ addErr' = NoCall
    /\ out' = << >>
    /\ UNCHANGED <<codecVars, readerVars, otherVars>>

Add(name, seq) ==
    /\ out = << >>
    /\ \E r \in {AddStorePacked(records, name, seq)} :
           /\ records' = r.records
           /\ added' = IF r.err = Nil THEN (name :> seq) @@ added ELSE added
           /\ addErr' = [op |-> "Add", name |-> name, seq |-> seq, err |-> r.err]
    /\ UNCHANGED <<out, codecVars, readerVars, otherVars>>

\* the sink is an empty buffer that accepts every Write
WriteTo ==
    /\ out = << >>
    /\ out' = WriteToHeader(records)
    /\ addErr' = [op |-> "WriteTo", name |-> << >>, seq |-> << >>, err |-> Nil]
    /\ UNCHANGED <<records, added, codecVars, readerVars, otherVars>>

NextWriter ==
    \/ NewWriter
    \/ \E name \in Names, seq \in SeqsUpTo(AddAlphabet, MaxAddLen) : Add(name, seq)
    \/ WriteTo

SpecWriter == InitWriter /\ [][NextWriter]_vars

(***************************************************************************)
(* Reader: the byte source                                                 *)
(***************************************************************************)
ErrEOF == "EOF"
ErrInvalidSig == "Invalid sig. Not a 2bit file?"
ErrVersion == "Unsupported version"
ErrHdrReserved == "Reserved != 0"
ErrIndex == "Failed to read file index"
ErrName == "Invalid sequence name"
ErrDnaSize == "Failed to read dnaSize"
ErrNBlocks == "Failed to read nBlocks"
ErrMBlocks == "Failed to read mBlocks"
ErrReserved == "Failed to read reserved"
ErrRecReserved == "Invalid reserved"
ErrRange == "Invalid range"
ErrBase == "Failed to read base"
Panic == "panic: index out of range"

\* io.ReadFull of n bytes at cursor p: all n bytes, or an error with the
\* cursor left at the end of the source
ReadFull(src, p, n) ==
    IF p + n <= Len(src)
    THEN [err |-> Nil, bytes |-> SubSeq(src, p + 1, p + n), pos |-> p + n]
    ELSE [err |-> ErrEOF, bytes |-> << >>, pos |-> IF p > Len(src) THEN p ELSE Len(src)]

\* binary.Read of one uint32
ReadUint32(src, p, order) ==
    Eager(ReadFull(src, p, 4), LAMBDA r :
        [err |-> r.err, val |-> IF r.err = Nil THEN Uint32(r.bytes, 0, order) ELSE 0,
         pos |-> r.pos])

\* n successive binary.Read calls of one uint32 each, stopping at the first error
RECURSIVE ReadUint32s(_, _, _, _, _)
ReadUint32s(src, p, order, n, acc) ==
    IF n = 0 THEN [err |-> Nil, vals |-> acc, pos |-> p]
    ELSE Eager(ReadUint32(src, p, order), LAMBDA r :
             IF r.err # Nil THEN [err |-> r.err, vals |-> acc, pos |-> r.pos]
             ELSE ReadUint32s(src, r.pos, order, n - 1, Append(acc, r.val)))

(***************************************************************************)
(* Reader: parseHeader, parseIndex, NewReader                              *)
(***************************************************************************)
NoHdr == [sig |-> 0, version |-> 0, count |-> 0, reserved |-> 0, byteOrder |-> "BE"]

\* a variant that reads version, count and reserved little-endian whatever
\* byte order the signature has
parseHeaderFieldsLE(src, p) ==
    Eager(ReadFull(src, p, 16), LAMBDA r :
        IF r.err # Nil THEN [err |-> r.err, hdr |-> NoHdr, pos |-> r.pos]
        ELSE
        LET b == r.bytes
            sigBE == Uint32(b, 0, "BE")
            sigLE == Uint32(b, 0, "LE")
            order == IF sigBE # SIG THEN "LE" ELSE "BE"
            sig == IF sigBE # SIG THEN sigLE ELSE sigBE
            version == Uint32(b, 4, "LE")
            count == Uint32(b, 8, "LE")
            reserved == Uint32(b, 12, "LE")
            hdr == [sig |-> sig, version |-> version, count |-> count,
                    reserved |-> reserved, byteOrder |-> order]
        IN  IF sig # SIG THEN [err |-> ErrInvalidSig, hdr |-> hdr, pos |-> r.pos]
            ELSE IF version # 0 THEN [err |-> ErrVersion, hdr |-> hdr, pos |-> r.pos]
            ELSE IF reserved # 0 THEN [err |-> ErrHdrReserved, hdr |-> hdr, pos |-> r.pos]
            ELSE [err |-> Nil, hdr |-> hdr, pos |-> r.pos])

parseHeader(src, p) ==
    Eager(ReadFull(src, p, 16), LAMBDA r :
        IF r.err # Nil THEN [err |-> r.err, hdr |-> NoHdr, pos |-> r.pos]
        ELSE
        LET b == r.bytes
            sigBE == Uint32(b, 0, "BE")
            sigLE == Uint32(b, 0, "LE")
            order == IF sigBE # SIG THEN "LE" ELSE "BE"
            sig == IF sigBE # SIG THEN sigLE ELSE sigBE
            version == Uint32(b, 4, order)
            count == Uint32(b, 8, order)
            reserved == Uint32(b, 12, order)
            hdr == [sig |-> sig, version |-> version, count |-> count,
                    reserved |-> reserved, byteOrder |-> order]
        IN  IF sig # SIG THEN [err |-> ErrInvalidSig, hdr |-> hdr, pos |-> r.pos]
            ELSE IF version # 0 THEN [err |-> ErrVersion, hdr |-> hdr, pos |-> r.pos]
            ELSE IF reserved # 0 THEN [err |-> ErrHdrReserved, hdr |-> hdr, pos |-> r.pos]
            ELSE [err |-> Nil, hdr |-> hdr, pos |-> r.pos])

RECURSIVE parseIndexLoop(_, _, _, _, _, _)
parseIndexLoop(src, p, order, i, count, index) ==
    IF i >= count THEN [err |-> Nil, index |-> index, pos |-> p]
    ELSE Eager(ReadFull(src, p, 1), LAMBDA rs :
         IF rs.err # Nil THEN [err |-> ErrIndex, index |-> index, pos |-> rs.pos]
         ELSE Eager(ReadFull(src, rs.pos, rs.bytes[1]), LAMBDA rn :
              IF rn.err # Nil THEN [err |-> ErrIndex, index |-> index, pos |-> rn.pos]
              ELSE Eager(ReadUint32(src, rn.pos, order), LAMBDA ro :
                   IF ro.err # Nil
                   THEN [err |-> ErrIndex, index |-> index, pos |-> ro.pos]
                   ELSE Eager((rn.bytes :> ro.val) @@ index, LAMBDA ix :
                            parseIndexLoop(src, ro.pos, order, i + 1, count, ix)))))

parseIndex(src, p, hdr) == parseIndexLoop(src, p, hdr.byteOrder, 0, hdr.count, << >>)

\* NewReader on a source whose cursor is at p
NewReaderAt(src, p) ==
    Eager(parseHeader(src, p), LAMBDA h :
        IF h.err # Nil THEN [err |-> h.err, rd |-> "none", pos |-> h.pos]
        ELSE Eager(parseIndex(src, h.pos, h.hdr), LAMBDA x :
                 IF x.err # Nil THEN [err |-> x.err, rd |-> "none", pos |-> x.pos]
                 ELSE [err |-> Nil, rd |-> [hdr |-> h.hdr, index |-> x.index],
                       pos |-> x.pos]))

Count(r) == r.hdr.count
Version(r) == r.hdr.version
ReaderNames(r) == DOMAIN r.index

(***************************************************************************)
(* Reader: parseBlockCoords, parseRecord                                   *)
(***************************************************************************)
RECURSIVE ZipBlocks(_, _, _, _)
ZipBlocks(starts, sizes, i, blocks) ==
    IF i > Len(starts) THEN blocks
    ELSE ZipBlocks(starts, sizes, i + 1, (starts[i] :> sizes[i]) @@ blocks)

parseBlockCoords(src, p, order) ==
    Eager(ReadUint32(src, p, order), LAMBDA c :
        IF c.err # Nil THEN [err |-> c.err, blocks |-> << >>, pos |-> c.pos]
        ELSE Eager(ReadUint32s(src, c.pos, order, c.val, << >>), LAMBDA st :
             IF st.err # Nil THEN [err |-> st.err, blocks |-> << >>, pos |-> st.pos]
             ELSE Eager(ReadUint32s(src, st.pos, order, c.val, << >>), LAMBDA sz :
                  IF sz.err # Nil
                  THEN [err |-> sz.err, blocks |-> << >>, pos |-> sz.pos]
                  ELSE [err |-> Nil, blocks |-> ZipBlocks(st.vals, sz.vals, 1, << >>),
                        pos |-> sz.pos])))

NoRec == [dnaSize |-> 0, nBlocks |-> << >>, mBlocks |-> << >>, reserved |-> 0]

\* r.reader.Seek(offset, 0) and r.reader.Seek(shift, 1) with the cursor at p.
\* The code drops what Seek returns: a Seek that fails (ok = FALSE) leaves
\* the cursor where it was and the caller goes on.
\* a variant that takes the offset from the cursor, not from the start
SeekStartFromCursor(p, offset, ok) == IF ok THEN p + offset ELSE p

SeekStart(p, offset, ok) == IF ok THEN offset ELSE p
SeekCurrent(p, shift, ok) == IF ok THEN p + shift ELSE p

\* parseRecord(name, coords) with the cursor at p, seekOk telling whether
\* the source's Seek works
parseRecordSeek(r, src, p, name, coords, seekOk) ==
    IF name \notin DOMAIN r.index THEN [err |-> ErrName, rec |-> NoRec, pos |-> p]
    ELSE
    LET order == r.hdr.byteOrder
    IN  Eager(ReadUint32(src, SeekStart(p, r.index[name], seekOk), order), LAMBDA d :
        IF d.err # Nil THEN [err |-> ErrDnaSize, rec |-> NoRec, pos |-> d.pos]
        ELSE IF ~coords
        THEN [err |-> Nil, rec |-> [NoRec EXCEPT !.dnaSize = d.val], pos |-> d.pos]
        ELSE
        Eager(parseBlockCoords(src, d.pos, order), LAMBDA nb :
        IF nb.err # Nil THEN [err |-> ErrNBlocks, rec |-> NoRec, pos |-> nb.pos]
        ELSE
        Eager(parseBlockCoords(src, nb.pos, order), LAMBDA mb :
        IF mb.err # Nil THEN [err |-> ErrMBlocks, rec |-> NoRec, pos |-> mb.pos]
        ELSE
        Eager(ReadUint32(src, mb.pos, order), LAMBDA rs :
        IF rs.err # Nil THEN [err |-> ErrReserved, rec |-> NoRec, pos |-> rs.pos]
        ELSE IF rs.val # 0
        THEN [err |-> ErrRecReserved, rec |-> NoRec, pos |-> rs.pos]
        ELSE [err |-> Nil,
              rec |-> [dnaSize |-> d.val, nBlocks |-> nb.blocks,
                       mBlocks |-> mb.blocks, reserved |-> rs.val],
              pos |-> rs.pos]))))

\* a variant that seeks (to the zero offset of a missing key) before it looks
\* at the result of the index lookup
parseRecordSeeksFirst(r, src, p, name, coords) ==
    Eager(parseRecordSeek(r, src, p, name, coords, TRUE), LAMBDA x :
        IF name \notin DOMAIN r.index THEN [x EXCEPT !.pos = SeekStart(p, 0, TRUE)] ELSE x)

\* parseRecord on a source whose Seek works: the Seek to the record's offset
\* is absolute, so p matters only when the name is unknown
parseRecord(r, src, p, name, coords) == parseRecordSeek(r, src, p, name, coords, TRUE)

(***************************************************************************)
(* Reader: Length, LengthNoN, NBlocks, ReadRange, Read                     *)
(***************************************************************************)
RECURSIVE SumBlocks(_, _)
SumBlocks(blocks, keys) ==
    IF keys = {} THEN 0
    ELSE Eager(CHOOSE x \in keys : TRUE, LAMBDA k :
             blocks[k] + Eager(keys \ {k}, LAMBDA rest : SumBlocks(blocks, rest)))

LengthAt(r, src, p, name) ==
    Eager(parseRecord(r, src, p, name, FALSE), LAMBDA x :
        IF x.err # Nil THEN [err |-> x.err, num |-> -1, pos |-> x.pos]
        ELSE [err |-> Nil, num |-> x.rec.dnaSize, pos |-> x.pos])

\* a variant that subtracts the number of N-blocks instead of their lengths
LengthNoNCountsBlocks(r, src, p, name) ==
    Eager(parseRecord(r, src, p, name, TRUE), LAMBDA x :
        IF x.err # Nil THEN [err |-> x.err, num |-> -1, pos |-> x.pos]
        ELSE [err |-> Nil, num |-> x.rec.dnaSize - Cardinality(DOMAIN x.rec.nBlocks),
              pos |-> x.pos])

LengthNoNAt(r, src, p, name) ==
    Eager(parseRecord(r, src, p, name, TRUE), LAMBDA x :
        IF x.err # Nil THEN [err |-> x.err, num |-> -1, pos |-> x.pos]
        ELSE [err |-> Nil,
              num |-> x.rec.dnaSize - SumBlocks(x.rec.nBlocks, DOMAIN x.rec.nBlocks),
              pos |-> x.pos])

NBlocksAt(r, src, p, name) ==
    Eager(parseRecord(r, src, p, name, TRUE), LAMBDA x :
        IF x.err # Nil THEN [err |-> x.err, blocks |-> << >>, pos |-> x.pos]
        ELSE [err |-> Nil, blocks |-> x.rec.nBlocks, pos |-> x.pos])

\* the read loop of ReadRange: bytes i..size-1 at cursor p, dna the buffer so far
RECURSIVE ReadBases(_, _, _, _, _, _)
ReadBases(src, p, i, size, start, dna) ==
    IF i >= size THEN [err |-> Nil, dna |-> dna, pos |-> p]
    ELSE Eager(ReadFull(src, p, 1), LAMBDA b :
         IF b.err # Nil THEN [err |-> ErrBase, dna |-> dna, pos |-> b.pos]
         ELSE Eager(DecodeByte(b.bytes[1], 3, <<0, 0, 0, 0>>), LAMBDA buf :
              Eager(dna \o (IF i = 0 THEN SubSeq(buf, (start % 4) + 1, 4) ELSE buf),
                    LAMBDA d2 : ReadBases(src, b.pos, i + 1, size, start, d2))))

\* the inner loop of an overlay: positions idx.. of seq for the rest of a block
RECURSIVE OverlayLoop(_, _, _, _, _)
OverlayLoop(seq, idx, i, cnt, kind) ==
    IF i >= cnt THEN [panic |-> FALSE, seq |-> seq]
    ELSE IF idx < 0 \/ idx >= Len(seq) THEN [panic |-> TRUE, seq |-> seq]
    ELSE Eager([seq EXCEPT ![idx + 1] =
                    IF kind = "N" THEN BASE_N ELSE (seq[idx + 1] + LowerShift) % 256],
               LAMBDA s2 :
                   IF idx + 1 >= Len(seq) THEN [panic |-> FALSE, seq |-> s2]
                   ELSE Eager(idx + 1, LAMBDA idx2 : OverlayLoop(s2, idx2, i + 1, cnt, kind)))

\* one iteration of "for bi, cnt := range blocks"
OverlayBlock(seq, bi, cnt, start, end, kind) ==
    IF (bi + cnt) < start \/ bi > end THEN [panic |-> FALSE, seq |-> seq]
    ELSE Eager(bi - start, LAMBDA idx :
             IF idx < 0 THEN Eager(cnt + idx, LAMBDA cnt2 : OverlayLoop(seq, 0, 0, cnt2, kind))
             ELSE OverlayLoop(seq, idx, 0, cnt, kind))

\* The range over the map visits the blocks in an unspecified order.  A block
\* panics or not whatever the buffer holds, an N-write stores a constant and
\* a mask-write adds a constant, so every order gives the same outcome; the
\* blocks are taken in ascending start order.
RECURSIVE Overlay(_, _, _, _, _, _)
Overlay(seq, blocks, keys, start, end, kind) ==
    IF keys = {} THEN [panic |-> FALSE, seq |-> seq]
    ELSE Eager(CHOOSE x \in keys : \A y \in keys : x <= y, LAMBDA bi :
         Eager(OverlayBlock(seq, bi, blocks[bi], start, end, kind), LAMBDA o :
             IF o.panic THEN o
             ELSE Eager(keys \ {bi}, LAMBDA rest :
                      Overlay(o.seq, blocks, rest, start, end, kind))))

\* ReadRange(name, start0, end0) with the cursor at p; absOk and relOk tell
\* whether the Seek of parseRecord and the relative Seek work.  shift and
\* size are the code's variables (0 before they are computed).
ReadRangeSeek(r, src, p, name, start0, end0, absOk, relOk) ==
    Eager(parseRecordSeek(r, src, p, name, TRUE, absOk), LAMBDA x :
        IF x.err # Nil
        THEN [err |-> x.err, str |-> << >>, pos |-> x.pos, shift |-> 0, size |-> 0]
        ELSE
        LET rec == x.rec
            total == rec.dnaSize
            start == IF start0 < 0 THEN 0 ELSE start0
            end1 == IF end0 > total THEN total ELSE end0
            end == IF end1 = 0 \/ end1 < 0 THEN total ELSE end1
        IN  IF end <= start
            THEN [err |-> ErrRange, str |-> << >>, pos |-> x.pos, shift |-> 0, size |-> 0]
            ELSE
            LET bases == end - start
                unaligned == start > 0 /\ start % 4 # 0
                size == IF unaligned THEN packedSize(bases) + 1 ELSE packedSize(bases)
                shift == IF start > 0
                         THEN (IF unaligned THEN packedSize(start) - 1 ELSE packedSize(start))
                         ELSE 0
                from == IF start > 0 THEN SeekCurrent(x.pos, shift, relOk) ELSE x.pos
                res(e, s, q) == [err |-> e, str |-> s, pos |-> q, shift |-> shift, size |-> size]
            IN  Eager(ReadBases(src, from, 0, size, start, << >>), LAMBDA rb :
                IF rb.err # Nil THEN res(rb.err, << >>, rb.pos)
                ELSE
                Eager(SubSeq(rb.dna, 1, bases), LAMBDA seq :
                Eager(Overlay(seq, rec.nBlocks, DOMAIN rec.nBlocks, start, end, "N"), LAMBDA n :
                IF n.panic THEN res(Panic, << >>, rb.pos)
                ELSE
                Eager(Overlay(n.seq, rec.mBlocks, DOMAIN rec.mBlocks, start, end, "M"), LAMBDA m :
                IF m.panic THEN res(Panic, << >>, rb.pos)
                ELSE res(Nil, m.seq, rb.pos))))))

\* ReadRange on a source whose Seek works
ReadRangeAt(r, src, p, name, start0, end0) ==
    ReadRangeSeek(r, src, p, name, start0, end0, TRUE, TRUE)

ReadAt(r, src, p, name) == ReadRangeAt(r, src, p, name, 0, 0)

(***************************************************************************)
(* Sources the Reader is opened on (binary layout of the format)           *)
(***************************************************************************)
MaxDna == 4
MaxBlocks == 2

U32(v, order) == PutUint32(<<0, 0, 0, 0>>, 0, v, order)

RECURSIVE EncU32s(_, _)
EncU32s(vals, order) ==
    IF vals = << >> THEN << >> ELSE U32(Head(vals), order) \o EncU32s(Tail(vals), order)

\* a block list: count, then the starts, then the lengths
EncBlocks(blks, order) ==
    U32(Len(blks), order)
        \o EncU32s([i \in 1..Len(blks) |-> blks[i][1]], order)
        \o EncU32s([i \in 1..Len(blks) |-> blks[i][2]], order)

EncRecord(rec, order) ==
    U32(rec.dnaSize, order) \o EncBlocks(rec.nBlocks, order) \o EncBlocks(rec.mBlocks, order)
        \o U32(rec.reserved, order) \o rec.sequence

EncHeader(h, order) ==
    U32(h.sig, order) \o U32(h.version, order) \o U32(h.count, order) \o U32(h.reserved, order)

RECURSIVE IndexSize(_)
IndexSize(entries) ==
    IF entries = << >> THEN 0 ELSE 1 + Len(Head(entries).name) + 4 + IndexSize(Tail(entries))

RECURSIVE EncIndex(_, _, _)
EncIndex(entries, offset, order) ==
    IF entries = << >> THEN << >>
    ELSE LET e == Head(entries)
         IN  <<Len(e.name)>> \o e.name \o U32(offset, order)
                 \o EncIndex(Tail(entries), offset + Len(EncRecord(e.rec, order)), order)

RECURSIVE EncRecords(_, _)
EncRecords(entries, order) ==
    IF entries = << >> THEN << >>
    ELSE EncRecord(Head(entries).rec, order) \o EncRecords(Tail(entries), order)

\* header, index (offsets are cumulative byte positions), records
EncFile(h, order, entries) ==
    EncHeader(h, order) \o EncIndex(entries, 16 + IndexSize(entries), order)
        \o EncRecords(entries, order)

GoodHdr(n) == [sig |-> SIG, version |-> 0, count |-> n, reserved |-> 0]

\* "ACTGCCTTTTTTTATTTACGC": the bases the generated records hold (TestAdd)
Pattern ==
    <<65, 67, 84, 71, 67, 67, 84, 84, 84, 84, 84, 84, 84, 65, 84, 84, 84, 65, 67, 71, 67>>

Intervals(d) == {<<s, l>> : s \in 0..(d - 1), l \in 1..d} \cap {b \in (0..d) \X (0..d) : b[1] + b[2] <= d}

Disjoint(b, c) == b[1] + b[2] <= c[1] \/ c[1] + c[2] <= b[1]

\* the sets of at most k pairwise disjoint intervals of [0, d)
RECURSIVE BlockSets(_, _)
BlockSets(d, k) ==
    IF k = 0 THEN {{}}
    ELSE LET prev == BlockSets(d, k - 1)
         IN  prev \cup UNION {{S \cup {b} : b \in {c \in Intervals(d) : \A e \in S : Disjoint(c, e)}}
                               : S \in prev}

RECURSIVE BlockList(_)
BlockList(S) ==
    IF S = {} THEN << >>
    ELSE LET b == CHOOSE x \in S : \A y \in S : x[1] <= y[1]
         IN  <<b>> \o BlockList(S \ {b})

MkRec(d, nS, mS, reserved) ==
    [dnaSize |-> d, nBlocks |-> BlockList(nS), mBlocks |-> BlockList(mS),
     reserved |-> reserved, sequence |-> Pack(SubSeq(Pattern, 1, d)).bytes]

\* well-formed records of at most maxd bases and at most maxb blocks in all
Recs(maxd, maxb) ==
    UNION {{MkRec(d, p[1], p[2], 0) :
                p \in {q \in BlockSets(d, maxb) \X BlockSets(d, maxb) :
                          Cardinality(q[1]) + Cardinality(q[2]) <= maxb}}
           : d \in 0..maxd}

NameA == <<97>>
NameB == <<98>>

\* the record of "ACTgcctttnnnNantnaCgc" (TestAdd: nBlocks, mBlocks)
TestRec ==
    MkRec(21, {<<9, 4>>, <<14, 1>>, <<16, 1>>}, {<<3, 9>>, <<13, 5>>, <<19, 2>>}, 0)

\* the ranges of TestRead
TestRanges == {<<0, 0>>, <<0, 5>>, <<5, 11>>, <<15, 21>>, <<19, 21>>, <<20, 21>>}

\* one record, the last thing in the file
SingleFiles ==
    {EncFile(GoodHdr(1), "LE", <<[name |-> NameA, rec |-> r]>>) : r \in Recs(MaxDna, MaxBlocks)}

\* two records, in either byte order
PairFiles ==
    {EncFile(GoodHdr(2), order, <<[name |-> NameA, rec |-> r], [name |-> NameB, rec |-> TestRec]>>)
        : order \in {"LE", "BE"}, r \in Recs(MaxDna - 2, 1)}

\* every combination of header words, before one fixed record
HeaderFiles ==
    {EncFile([sig |-> s, version |-> v, count |-> c, reserved |-> x], order,
             <<[name |-> NameA, rec |-> TestRec]>>)
        : s \in {SIG, 0}, v \in {0, 1}, c \in {0, 1, 2}, x \in {0, 1}, order \in {"LE", "BE"}}

\* a record whose reserved word is not 0
BadRecordFiles ==
    {EncFile(GoodHdr(1), order, <<[name |-> NameA, rec |-> MkRec(3, {<<0, 1>>}, {}, 1)]>>)
        : order \in {"LE", "BE"}}

Files == SingleFiles \cup PairFiles \cup HeaderFiles \cup BadRecordFiles

(***************************************************************************)
(* Reader run: NewReader, then one query                                   *)
(***************************************************************************)
QueryNames == {NameA, NameB}
Ranges == (((-1)..MaxDna) \X ((-1)..(MaxDna + 1))) \cup TestRanges

InitReader ==
    /\ source \in Files
    /\ pos = 0
    /\ rd = "none"
    /\ openErr = "none"
    /\ last = NoQuery
    /\ CodecIdle
    /\ WriterIdle
    /\ OtherIdle

NewReader ==
    /\ openErr = "none"
    /\ \E o \in {NewReaderAt(source, pos)} :
           /\ rd' = o.rd
           /\ openErr' = o.err
           /\ pos' = o.pos
    /\ UNCHANGED <<source, last, codecVars, writerVars, otherVars>>

Ready == openErr = Nil /\ last.op = "none"

Length(name) ==
    /\ Ready
    /\ \E q \in {LengthAt(rd, source, pos, name)} :
           /\ last' = [NoQuery EXCEPT !.op = "Length", !.name = name, !.err = q.err, !.num = q.num]
           /\ pos' = q.pos
    /\ UNCHANGED <<source, rd, openErr, codecVars, writerVars, otherVars>>

LengthNoN(name) ==
    /\ Ready
    /\ \E q \in {LengthNoNAt(rd, source, pos, name)} :
           /\ last' = [NoQuery EXCEPT !.op = "LengthNoN", !.name = name, !.err = q.err,
                                      !.num = q.num]
           /\ pos' = q.pos
    /\ UNCHANGED <<source, rd, openErr, codecVars, writerVars, otherVars>>

NBlocks(name) ==
    /\ Ready
    /\ \E q \in {NBlocksAt(rd, source, pos, name)} :
           /\ last' = [NoQuery EXCEPT !.op = "NBlocks", !.name = name, !.err = q.err,
                                      !.blocks = q.blocks]
           /\ pos' = q.pos
    /\ UNCHANGED <<source, rd, openErr, codecVars, writerVars, otherVars>>

Read(name) ==
    /\ Ready
    /\ \E q \in {ReadAt(rd, source, pos, name)} :
           /\ last' = [NoQuery EXCEPT !.op = "Read", !.name = name, !.err = q.err, !.str = q.str]
           /\ pos' = q.pos
    /\ UNCHANGED <<source, rd, openErr, codecVars, writerVars, otherVars>>

ReadRange(name, start, end) ==
    /\ Ready
    /\ \E q \in {ReadRangeAt(rd, source, pos, name, start, end)} :
           /\ last' = [NoQuery EXCEPT !.op = "ReadRange", !.name = name, !.start = start,
                                      !.end = end, !.err = q.err, !.str = q.str]
           /\ pos' = q.pos
    /\ UNCHANGED <<source, rd, openErr, codecVars, writerVars, otherVars>>

NextReader ==
    \/ NewReader
    \/ \E name \in QueryNames : Length(name)
    \/ \E name \in QueryNames : LengthNoN(name)
    \/ \E name \in QueryNames : NBlocks(name)
    \/ \E name \in QueryNames : Read(name)
    \/ \E name \in QueryNames, rg \in Ranges : ReadRange(name, rg[1], rg[2])

SpecReader == InitReader /\ [][NextReader]_vars

(***************************************************************************)
(* Reader session: NewReader, then several queries one after the other     *)
(***************************************************************************)
MaxCalls == 2

Ops == {"Length", "LengthNoN", "NBlocks", "Read", "ReadRange"}

\* what the query method op returns, as the value of last, and the cursor
\* it leaves
QueryAt(r, src, p, op, name, start, end) ==
    CASE op = "Length" ->
             Eager(LengthAt(r, src, p, name), LAMBDA q :
                 [last |-> [NoQuery EXCEPT !.op = op, !.name = name, !.err = q.err,
                                           !.num = q.num],
                  pos |-> q.pos])
      [] op = "LengthNoN" ->
             Eager(LengthNoNAt(r, src, p, name), LAMBDA q :
                 [last |-> [NoQuery EXCEPT !.op = op, !.name = name, !.err = q.err,
                                           !.num = q.num],
                  pos |-> q.pos])
      [] op = "NBlocks" ->
             Eager(NBlocksAt(r, src, p, name), LAMBDA q :
                 [last |-> [NoQuery EXCEPT !.op = op, !.name = name, !.err = q.err,
                                           !.blocks = q.blocks],
                  pos |-> q.pos])
      [] op = "Read" ->
             Eager(ReadAt(r, src, p, name), LAMBDA q :
                 [last |-> [NoQuery EXCEPT !.op = op, !.name = name, !.err = q.err,
                                           !.str = q.str],
                  pos |-> q.pos])
      [] op = "ReadRange" ->
             Eager(ReadRangeAt(r, src, p, name, start, end), LAMBDA q :
                 [last |-> [NoQuery EXCEPT !.op = op, !.name = name, !.start = start,
                                           !.end = end, !.err = q.err, !.str = q.str],
                  pos |-> q.pos])

\* two records in either byte order, one record alone, a bad record
SessionFiles ==
    PairFiles \cup BadRecordFiles \cup
    {EncFile(GoodHdr(1), "LE", <<[name |-> NameA, rec |-> TestRec]>>)}

SessionRanges == TestRanges \cup ((0..1) \X (1..2))

ArgsOf(op) == IF op = "ReadRange" THEN SessionRanges ELSE {<<0, 0>>}

InitSession ==
    /\ source \in SessionFiles
    /\ pos = 0
    /\ rd = "none"
    /\ openErr = "none"
    /\ last = NoQuery
    /\ CodecIdle
    /\ WriterIdle
    /\ OtherIdle

\* one completed call of a query method on the opened Reader
Call(op, name, start, end) ==
    /\ openErr = Nil
    /\ calls < MaxCalls
    /\ \E q \in {QueryAt(rd, source, pos, op, name, start, end)} :
           /\ last' = q.last
           /\ pos' = q.pos
    /\ calls' = calls + 1
    /\ UNCHANGED <<source, rd, openErr, codecVars, writerVars, th, mixed, fault>>

NextSession ==
    \/ NewReader
    \/ \E op \in Ops, name \in QueryNames : \E rg \in ArgsOf(op) : Call(op, name, rg[1], rg[2])

SpecSession == InitSession /\ [][NextSession]_vars

(***************************************************************************)
(* Two goroutines, each in one ReadRange call, on one Reader.  A step is   *)
(* one call on the shared io.ReadSeeker (a Seek or a Read) together with   *)
(* the goroutine's own computation up to its next call.                    *)
(***************************************************************************)
Threads == {1, 2}

\* the locals of a goroutine's ReadRange call
NoThread ==
    [pc |-> "idle", ph |-> "", name |-> << >>, start0 |-> 0, end0 |-> 0,
     dnaSize |-> 0, cnt |-> 0, starts |-> << >>, sizes |-> << >>,
     nBlocks |-> << >>, mBlocks |-> << >>, start |-> 0, end |-> 0,
     shift |-> 0, size |-> 0, i |-> 0, dna |-> << >>, err |-> "none", str |-> << >>]

InFlight(l) == l.pc \notin {"idle", "done"}

\* the call returns: its locals are gone
Return(l, e, s) ==
    [NoThread EXCEPT !.pc = "done", !.name = l.name, !.start0 = l.start0,
                     !.end0 = l.end0, !.err = e, !.str = s]

\* the error parseRecord wraps a failed Read in
WordErr(ph) ==
    CASE ph = "dnaSize" -> ErrDnaSize
      [] ph \in {"nCount", "nStarts", "nSizes"} -> ErrNBlocks
      [] ph \in {"mCount", "mStarts", "mSizes"} -> ErrMBlocks
      [] OTHER -> ErrReserved

\* ReadRange from the return of parseRecord to its relative Seek, or to its
\* first Read when start is 0
AfterRecord(l) ==
    LET total == l.dnaSize
        start == IF l.start0 < 0 THEN 0 ELSE l.start0
        end1 == IF l.end0 > total THEN total ELSE l.end0
        end == IF end1 = 0 \/ end1 < 0 THEN total ELSE end1
        unaligned == start > 0 /\ start % 4 # 0
    IN  IF end <= start THEN Return(l, ErrRange, << >>)
        ELSE [l EXCEPT !.pc = IF start > 0 THEN "seek" ELSE "base", !.ph = "",
                       !.start = start, !.end = end,
                       !.size = IF unaligned THEN packedSize(end - start) + 1
                                ELSE packedSize(end - start),
                       !.shift = IF start > 0
                                 THEN (IF unaligned THEN packedSize(start) - 1
                                       ELSE packedSize(start))
                                 ELSE 0]

\* parseRecord and parseBlockCoords after a binary.Read gave the word v
AfterWord(l, v) ==
    CASE l.ph = "dnaSize" -> [l EXCEPT !.dnaSize = v, !.ph = "nCount"]
      [] l.ph = "nCount" ->
             IF v = 0 THEN [l EXCEPT !.nBlocks = << >>, !.ph = "mCount"]
             ELSE [l EXCEPT !.cnt = v, !.ph = "nStarts"]
      [] l.ph = "nStarts" ->
             [l EXCEPT !.starts = Append(l.starts, v),
                       !.ph = IF Len(l.starts) + 1 = l.cnt THEN "nSizes" ELSE "nStarts"]
      [] l.ph = "nSizes" ->
             IF Len(l.sizes) + 1 < l.cnt THEN [l EXCEPT !.sizes = Append(l.sizes, v)]
             ELSE [l EXCEPT !.nBlocks = ZipBlocks(l.starts, Append(l.sizes, v), 1, << >>),
                            !.starts = << >>, !.sizes = << >>, !.cnt = 0, !.ph = "mCount"]
      [] l.ph = "mCount" ->
             IF v = 0 THEN [l EXCEPT !.mBlocks = << >>, !.ph = "reserved"]
             ELSE [l EXCEPT !.cnt = v, !.ph = "mStarts"]
      [] l.ph = "mStarts" ->
             [l EXCEPT !.starts = Append(l.starts, v),
                       !.ph = IF Len(l.starts) + 1 = l.cnt THEN "mSizes" ELSE "mStarts"]
      [] l.ph = "mSizes" ->
             IF Len(l.sizes) + 1 < l.cnt THEN [l EXCEPT !.sizes = Append(l.sizes, v)]
             ELSE [l EXCEPT !.mBlocks = ZipBlocks(l.starts, Append(l.sizes, v), 1, << >>),
                            !.starts = << >>, !.sizes = << >>, !.cnt = 0, !.ph = "reserved"]
      [] OTHER ->
             IF v # 0 THEN Return(l, ErrRecReserved, << >>) ELSE AfterRecord(l)

\* a variant of the read loop that keeps all four bases of the first byte
AfterBaseNoTrim(l, base) ==
    Eager(l.dna \o DecodeByte(base, 3, <<0, 0, 0, 0>>), LAMBDA dna :
        IF l.i + 1 < l.size THEN [l EXCEPT !.dna = dna, !.i = l.i + 1]
        ELSE Eager(Overlay(SubSeq(dna, 1, l.end - l.start), l.nBlocks, DOMAIN l.nBlocks,
                           l.start, l.end, "N"), LAMBDA n :
             IF n.panic THEN Return(l, Panic, << >>)
             ELSE Eager(Overlay(n.seq, l.mBlocks, DOMAIN l.mBlocks, l.start, l.end, "M"),
                        LAMBDA m : IF m.panic THEN Return(l, Panic, << >>)
                                   ELSE Return(l, Nil, m.seq))))

\* the read loop after a binary.Read gave the byte base, and, after the last
\* byte, the overlays and the return
AfterBase(l, base) ==
    Eager(l.dna \o (IF l.i = 0
                    THEN SubSeq(DecodeByte(base, 3, <<0, 0, 0, 0>>), (l.start % 4) + 1, 4)
                    ELSE DecodeByte(base, 3, <<0, 0, 0, 0>>)), LAMBDA dna :
        IF l.i + 1 < l.size THEN [l EXCEPT !.dna = dna, !.i = l.i + 1]
        ELSE Eager(Overlay(SubSeq(dna, 1, l.end - l.start), l.nBlocks, DOMAIN l.nBlocks,
                           l.start, l.end, "N"), LAMBDA n :
             IF n.panic THEN Return(l, Panic, << >>)
             ELSE Eager(Overlay(n.seq, l.mBlocks, DOMAIN l.mBlocks, l.start, l.end, "M"),
                        LAMBDA m : IF m.panic THEN Return(l, Panic, << >>)
                                   ELSE Return(l, Nil, m.seq))))

\* two records; the goroutines read either one
RaceFiles ==
    {EncFile(GoodHdr(2), order,
             <<[name |-> NameA, rec |-> MkRec(MaxDna - 2, {<<0, 1>>}, {}, 0)],
               [name |-> NameB, rec |-> MkRec(MaxDna, {}, {<<1, 2>>}, 0)]>>)
        : order \in {"LE", "BE"}}

RaceRanges == {<<0, 0>>, <<1, 2>>}

InitRace ==
    /\ source \in RaceFiles
    /\ pos = 0
    /\ rd = "none"
    /\ openErr = "none"
    /\ last = NoQuery
    /\ calls = 0
    /\ th = [t \in Threads |-> NoThread]
    /\ mixed = FALSE
    /\ fault = NoFault
    /\ CodecIdle
    /\ WriterIdle

Other(t) == 3 - t

\* goroutine t enters ReadRange: the index lookup and the Seek of parseRecord
Go(t, name, start, end) ==
    /\ openErr = Nil
    /\ th[t].pc = "idle"
    /\ \E l \in {[NoThread EXCEPT !.name = name, !.start0 = start, !.end0 = end]} :
           IF name \notin DOMAIN rd.index
           THEN /\ th' = [th EXCEPT ![t] = Return(l, ErrName, << >>)]
                /\ pos' = pos
           ELSE /\ th' = [th EXCEPT ![t] = [l EXCEPT !.pc = "word", !.ph = "dnaSize"]]
                /\ pos' = SeekStart(pos, rd.index[name], TRUE)
    /\ mixed' = (mixed \/ InFlight(th[Other(t)]))
    /\ UNCHANGED <<source, rd, openErr, last, calls, fault, codecVars, writerVars>>

\* goroutine t does one binary.Read of a uint32 in parseRecord
ReadWord(t) ==
    /\ th[t].pc = "word"
    /\ \E r \in {ReadUint32(source, pos, rd.hdr.byteOrder)} :
           /\ pos' = r.pos
           /\ th' = [th EXCEPT ![t] = IF r.err # Nil
                                      THEN Return(th[t], WordErr(th[t].ph), << >>)
                                      ELSE AfterWord(th[t], r.val)]
    /\ mixed' = (mixed \/ InFlight(th[Other(t)]))
    /\ UNCHANGED <<source, rd, openErr, last, calls, fault, codecVars, writerVars>>

\* goroutine t does the relative Seek of ReadRange
SeekShift(t) ==
    /\ th[t].pc = "seek"
    /\ pos' = SeekCurrent(pos, th[t].shift, TRUE)
    /\ th' = [th EXCEPT ![t].pc = "base"]
    /\ mixed' = (mixed \/ InFlight(th[Other(t)]))
    /\ UNCHANGED <<source, rd, openErr, last, calls, fault, codecVars, writerVars>>

\* goroutine t does one binary.Read of a packed byte
ReadBase(t) ==
    /\ th[t].pc = "base"
    /\ \E b \in {ReadFull(source, pos, 1)} :
           /\ pos' = b.pos
           /\ th' = [th EXCEPT ![t] = IF b.err # Nil THEN Return(th[t], ErrBase, << >>)
                                      ELSE AfterBase(th[t], b.bytes[1])]
    /\ mixed' = (mixed \/ InFlight(th[Other(t)]))
    /\ UNCHANGED <<source, rd, openErr, last, calls, fault, codecVars, writerVars>>

NextRace ==
    \/ NewReader
    \/ \E t \in Threads, name \in QueryNames, rg \in RaceRanges : Go(t, name, rg[1], rg[2])
    \/ \E t \in Threads : ReadWord(t)
    \/ \E t \in Threads : SeekShift(t)
    \/ \E t \in Threads : ReadBase(t)

SpecRace == InitRace /\ [][NextRace]_vars

(***************************************************************************)
(* Reader over a source that fails: the source holds only the first bytes  *)
(* of a file (reads come up short) and its Seek may fail                   *)
(***************************************************************************)
\* Length(name) on a source whose Seek works or not
LengthSeek(r, src, p, name, seekOk) ==
    Eager(parseRecordSeek(r, src, p, name, FALSE, seekOk), LAMBDA x :
        IF x.err # Nil THEN [err |-> x.err, num |-> -1, pos |-> x.pos]
        ELSE [err |-> Nil, num |-> x.rec.dnaSize, pos |-> x.pos])

FaultFiles == RaceFiles

InitFaulty ==
    /\ \E f \in FaultFiles : \E k \in 0..Len(f) :
           /\ source = SubSeq(f, 1, k)
           /\ fault = [NoFault EXCEPT !.full = f]
    /\ pos = 0
    /\ rd = "none"
    /\ openErr = "none"
    /\ last = NoQuery
    /\ calls = 0
    /\ th = << >>
    /\ mixed = FALSE
    /\ CodecIdle
    /\ WriterIdle

\* Length(name); seekOk tells whether the source's Seek works during the call
FaultyLength(name, seekOk) ==
    /\ Ready
    /\ \E q \in {LengthSeek(rd, source, pos, name, seekOk)} :
           /\ last' = [NoQuery EXCEPT !.op = "Length", !.name = name, !.err = q.err, !.num = q.num]
           /\ pos' = q.pos
    /\ fault' = [fault EXCEPT !.abs = (name \in DOMAIN rd.index /\ ~seekOk)]
    /\ UNCHANGED <<source, rd, openErr, calls, th, mixed, codecVars, writerVars>>

\* ReadRange(name, start, end); absOk and relOk tell whether the Seek of
\* parseRecord and the relative Seek work.  The relative Seek is called when
\* the range is valid (size is set) and start > 0.
FaultyReadRange(name, start, end, absOk, relOk) ==
    /\ Ready
    /\ \E q \in {ReadRangeSeek(rd, source, pos, name, start, end, absOk, relOk)} :
           /\ last' = [NoQuery EXCEPT !.op = "ReadRange", !.name = name, !.start = start,
                                      !.end = end, !.err = q.err, !.str = q.str]
           /\ pos' = q.pos
           /\ fault' = [fault EXCEPT !.abs = (name \in DOMAIN rd.index /\ ~absOk),
                                     !.rel = (q.size > 0 /\ start > 0 /\ ~relOk)]
    /\ UNCHANGED <<source, rd, openErr, calls, th, mixed, codecVars, writerVars>>

NextFaulty ==
    \/ NewReader
    \/ \E name \in QueryNames, ok \in BOOLEAN : FaultyLength(name, ok)
    \/ \E name \in QueryNames, rg \in SessionRanges, absOk \in BOOLEAN, relOk \in BOOLEAN :
           FaultyReadRange(name, rg[1], rg[2], absOk, relOk)

SpecFaulty == InitFaulty /\ [][NextFaulty]_vars

(***************************************************************************)
(* Properties of the codec                                                 *)
(***************************************************************************)
ValidSeq(s) == \A k \in 1..Len(s) : s[k] \in {65, 67, 71, 84, 78, 97, 99, 103, 116, 110}

\* a symbol upper-cased, with N replaced by T
Canon(c) ==
    LET u == IF c >= 97 THEN c - 32 ELSE c
    IN  IF u = 78 THEN 84 ELSE u

\* the 2-bit code of the format: T=0, C=1, A=2, G=3
CodeOf(c) == CASE Canon(c) = 84 -> 0 [] Canon(c) = 67 -> 1 [] Canon(c) = 65 -> 2 [] Canon(c) = 71 -> 3

CeilDiv4(n) == IF n % 4 = 0 THEN n \div 4 ELSE (n \div 4) + 1

Pow4(e) == CASE e = 0 -> 1 [] e = 1 -> 4 [] e = 2 -> 16 [] e = 3 -> 64

\* the two bits of byte b that hold slot j (slot 0 = bits 7..6, slot 3 = bits 1..0)
Slot(b, j) == (b \div Pow4(3 - j)) % 4

\* C4: for every sequence over the ten recognised symbols Pack succeeds, and
\* Unpack(Pack(s), len(s)) is s upper-cased with every N/n replaced by T.
C4_PackUnpackCanon ==
    ValidSeq(in) =>
        /\ cpc # "start" => packRes.err = Nil
        /\ cpc \in {"unpacked", "mapped"} =>
               /\ Len(unpackRes) = Len(in)
               /\ \A k \in 1..Len(in) : unpackRes[k] = Canon(in[k])

C4_Witness ==
    /\ cpc = "unpacked"
    /\ Len(in) > 4 /\ Len(in) % 4 # 0
    /\ \E k \in 1..Len(in) : IsN(in[k])
    /\ \E k \in 1..Len(in) : IsLower(in[k]) /\ ~IsN(in[k])

\* C5: Pack returns ceil(L/4) bytes; base 4k+j sits in slot j of byte k (first
\* base in the two highest bits) with codes T=0 C=1 A=2 G=3, and the unused
\* slots of the last byte hold code 0.
C5_PackLayout ==
    (cpc # "start" /\ ValidSeq(in)) =>
        /\ Len(packRes.bytes) = CeilDiv4(Len(in))
        /\ \A k \in 0..(Len(packRes.bytes) - 1) : \A j \in 0..3 :
               Slot(packRes.bytes[k + 1], j) =
                   IF 4 * k + j < Len(in) THEN CodeOf(in[4 * k + j + 1]) ELSE 0

C5_Witness ==
    /\ cpc = "packed" /\ packRes.err = Nil
    /\ Len(in) > 4 /\ Len(in) % 4 # 0
    /\ \E k \in 5..Len(in) : CodeOf(in[k]) # 0

\* the positions a block map covers
CoveredIn(blocks, n) == {p \in 0..(n - 1) : \E b \in DOMAIN blocks : p >= b /\ p < b + blocks[b]}

MaximalRuns(seq, kind, blocks) ==
    /\ \A b \in DOMAIN blocks : b >= 0 /\ blocks[b] >= 1 /\ b + blocks[b] <= Len(seq)
    /\ CoveredIn(blocks, Len(seq)) = {p \in 0..(Len(seq) - 1) : Check(kind, seq[p + 1])}
    /\ \A b1, b2 \in DOMAIN blocks : b1 < b2 => b1 + blocks[b1] < b2

\* C7: the N-blocks and mask-blocks computed for a sequence are exactly the
\* maximal runs of the predicate: they cover exactly the positions where it
\* holds, each has length >= 1, no two overlap or abut, and a run that
\* reaches the end of the sequence is emitted.
C7_MaximalRuns ==
    cpc = "mapped" =>
        /\ MaximalRuns(in, "N", blocksRes.n)
        /\ MaximalRuns(in, "M", blocksRes.m)

C7_Witness ==
    /\ cpc = "mapped"
    /\ Cardinality(DOMAIN blocksRes.n) >= 2
    /\ Cardinality(DOMAIN blocksRes.m) >= 2
    /\ \E b \in DOMAIN blocksRes.m : b + blocksRes.m[b] = Len(in)
    /\ \E b \in DOMAIN blocksRes.n : blocksRes.n[b] >= 2


(***************************************************************************)
(* Properties of the Writer                                                *)
(***************************************************************************)
Written == addErr.op = "WriteTo"

\* C2: after Add(name, s) and WriteTo the sink holds header, index and
\* records, so that NewReader on those bytes followed by Read(name) returns s.
C2_WriteReadRoundTrip ==
    Written =>
        \A name \in {n \in DOMAIN added : Len(added[n]) >= 1} :
            LET o == NewReaderAt(out, 0)
            IN  /\ o.err = Nil
                /\ ReadAt(o.rd, out, o.pos, name).err = Nil
                /\ ReadAt(o.rd, out, o.pos, name).str = added[name]

\* C3: the first 16 bytes WriteTo emits are a little-endian header: signature
\* 0x1A412743, version 0, sequenceCount = number of records held, reserved 0;
\* NewReader on the output reports Count() = number of distinct names added.
C3_HeaderCount ==
    Written =>
        /\ Len(out) >= 16
        /\ Uint32(out, 0, "LE") = 440477507
        /\ Uint32(out, 4, "LE") = 0
        /\ Uint32(out, 8, "LE") = Cardinality(DOMAIN records)
        /\ Uint32(out, 12, "LE") = 0
        /\ NewReaderAt(out, 0).err = Nil
        /\ Count(NewReaderAt(out, 0).rd) = Cardinality(DOMAIN added)

\* C6: an Add of a sequence with a symbol outside {A,C,G,T,N} (either case)
\* fails with Pack's UnsupportedBase error, Pack returns no bytes, and the
\* Writer's records are exactly what they were before the call.
C6_AddRejectsUnsupported ==
    [][(addErr'.op = "Add" /\ ~ValidSeq(addErr'.seq)) =>
           /\ Pack(addErr'.seq) = [err |-> ErrUnsupportedBase, bytes |-> << >>]
           /\ addErr'.err = ErrUnsupportedBase
           /\ records' = records]_vars

C6_Witness ==
    /\ addErr.op = "Add"
    /\ addErr.err = ErrUnsupportedBase
    /\ Len(addErr.seq) >= 2
    /\ addErr.name \in DOMAIN records
    /\ Cardinality(DOMAIN records) = 2


(***************************************************************************)
(* Properties of the Reader                                                *)
(***************************************************************************)
Opened == openErr = Nil
Known(name) == Opened /\ name \in DOMAIN rd.index

\* the record of name as the Reader parses it
RecOf(name) == parseRecord(rd, source, pos, name, TRUE)

BlocksWellFormed(blocks, total) ==
    /\ \A b \in DOMAIN blocks : b >= 0 /\ blocks[b] >= 0 /\ b + blocks[b] <= total
    /\ \A b1, b2 \in DOMAIN blocks : b1 < b2 => b1 + blocks[b1] <= b2

\* intervals within [0, dnaSize), not overlapping within each set
WellFormed(name) ==
    /\ Known(name)
    /\ RecOf(name).err = Nil
    /\ BlocksWellFormed(RecOf(name).rec.nBlocks, RecOf(name).rec.dnaSize)
    /\ BlocksWellFormed(RecOf(name).rec.mBlocks, RecOf(name).rec.dnaSize)

\* C1: in a well-formed source, for 0 <= start < end <= Length(name),
\* ReadRange(name, start, end) succeeds and returns the substring
\* [start:end) of what Read(name) returns.
C1_RangeIsSliceOfRead ==
    (/\ last.op = "ReadRange"
     /\ WellFormed(last.name)
     /\ 0 <= last.start /\ last.start < last.end
     /\ last.end <= LengthAt(rd, source, pos, last.name).num) =>
        /\ last.err = Nil
        /\ ReadAt(rd, source, pos, last.name).err = Nil
        /\ last.str = SubSeq(ReadAt(rd, source, pos, last.name).str, last.start + 1, last.end)

RECURSIVE BlockLenSum(_)
BlockLenSum(blocks) ==
    IF DOMAIN blocks = {} THEN 0
    ELSE LET k == CHOOSE x \in DOMAIN blocks : \A y \in DOMAIN blocks : x >= y
         IN  blocks[k] + BlockLenSum([b \in (DOMAIN blocks) \ {k} |-> blocks[b]])

\* C8: for every name in the index of an opened source, LengthNoN(name) is
\* Length(name) minus the sum of the lengths of the blocks NBlocks(name)
\* returns (LengthNoN and NBlocks succeed or fail together).
C8_LengthNoNIsLengthMinusN ==
    (last.op = "LengthNoN" /\ Known(last.name)) =>
        LET L == LengthAt(rd, source, pos, last.name)
            B == NBlocksAt(rd, source, pos, last.name)
        IN  /\ last.err = Nil <=> B.err = Nil
            /\ last.err = Nil =>
                   /\ L.err = Nil
                   /\ last.num = L.num - BlockLenSum(B.blocks)

C8_Witness ==
    /\ last.op = "LengthNoN" /\ Known(last.name) /\ last.err = Nil
    /\ last.num = 15
    /\ LengthAt(rd, source, pos, last.name).num = 21
    /\ Cardinality(DOMAIN NBlocksAt(rd, source, pos, last.name).blocks) = 3

\* C9: ReadRange normalises its range: a negative start becomes 0, an end
\* <= 0 or beyond the total becomes the total; if then end <= start the call
\* fails with InvalidRange and no string, otherwise the string returned has
\* exactly end - start symbols.
C9_NormalisedRange ==
    (last.op = "ReadRange" /\ Known(last.name) /\ RecOf(last.name).err = Nil) =>
        LET total == RecOf(last.name).rec.dnaSize
            s == IF last.start < 0 THEN 0 ELSE last.start
            e == IF last.end <= 0 \/ last.end > total THEN total ELSE last.end
        IN  IF e <= s
            THEN last.err = ErrRange /\ last.str = << >>
            ELSE last.err = Nil /\ Len(last.str) = e - s

\* a 32-bit word of the source, most or least significant byte first
WordBE(b, off) == ((b[off + 1] * 256 + b[off + 2]) * 256 + b[off + 3]) * 256 + b[off + 4]
WordLE(b, off) == ((b[off + 4] * 256 + b[off + 3]) * 256 + b[off + 2]) * 256 + b[off + 1]
Word(b, off, big) == IF big THEN WordBE(b, off) ELSE WordLE(b, off)

\* C10: NewReader accepts a 16-byte header exactly when the signature is
\* 0x1A412743 read big-endian or else little-endian and the version and
\* reserved words, in that byte order, are 0; the failures are, in order,
\* MalformedHeader, UnsupportedVersion, ReservedFieldNonZero; on success
\* Count() is the count word in the detected byte order.
C10_HeaderAccepted ==
    (openErr # "none" /\ Len(source) >= 16) =>
        LET big == WordBE(source, 0) = 440477507
            recognised == big \/ WordLE(source, 0) = 440477507
            ver == Word(source, 4, big)
            cnt == Word(source, 8, big)
            res == Word(source, 12, big)
            good == recognised /\ ver = 0 /\ res = 0
        IN  /\ ~recognised => openErr = ErrInvalidSig
            /\ (recognised /\ ver # 0) => openErr = ErrVersion
            /\ (recognised /\ ver = 0 /\ res # 0) => openErr = ErrHdrReserved
            /\ good => openErr \in {Nil, ErrIndex}
            /\ good <=> parseHeader(source, 0).err = Nil
            /\ good => parseHeader(source, 0).hdr.count = cnt
            /\ (good /\ cnt = 0) => openErr = Nil
            /\ openErr = Nil => Count(rd) = cnt

C10_Witness ==
    /\ openErr = Nil
    /\ rd.hdr.byteOrder = "BE"
    /\ Count(rd) = 2
    /\ DOMAIN rd.index = {NameA, NameB}

\* the cursor and the Reader a fresh NewReader over the same bytes gives
Fresh == NewReaderAt(source, 0)

\* C11: for a name that is not in the index, Read, ReadRange, Length,
\* LengthNoN and NBlocks each return the Invalid sequence name error and no
\* result (empty string, -1, nil map), and leave the cursor of the source
\* where it was.
C11_UnknownName ==
    [][(calls' = calls + 1 /\ last'.name \notin DOMAIN rd.index) =>
           /\ last'.err = ErrName
           /\ last'.str = << >>
           /\ last'.blocks = << >>
           /\ last'.op \in {"Length", "LengthNoN"} => last'.num = -1
           /\ pos' = pos
           /\ rd' = rd]_vars

C11_Witness ==
    /\ calls = 2
    /\ last.op = "ReadRange"
    /\ last.name \notin DOMAIN rd.index
    /\ last.err = ErrName
    /\ pos > Fresh.pos

\* C12: sequential queries on one Reader are stateless: after any sequence
\* of completed Length, LengthNoN, NBlocks, Read and ReadRange calls, a query
\* returns what it returns as the first call on a freshly opened Reader over
\* the same bytes, and the Reader's header and index (Count, Names) are the
\* ones NewReader built.
C12_Stateless ==
    (openErr = Nil /\ calls >= 1) =>
        /\ last = QueryAt(Fresh.rd, source, Fresh.pos,
                          last.op, last.name, last.start, last.end).last
        /\ rd = Fresh.rd
        /\ Count(rd) = Count(Fresh.rd)
        /\ ReaderNames(rd) = ReaderNames(Fresh.rd)

C12_Witness ==
    /\ openErr = Nil
    /\ calls = 2
    /\ last.op = "ReadRange"
    /\ last.name = NameB
    /\ last.err = Nil
    /\ Len(last.str) = 6
    /\ Count(rd) = 2

\* what the ReadRange call of a goroutine returns when it runs alone
Alone(l) == ReadRangeAt(rd, source, 0, l.name, l.start0, l.end0)

\* C13: two ReadRange calls that share one Reader without a lock are unsafe
\* (the witness: an interleaving of their Seek and Read steps after which a
\* call has returned a string that is not the one it returns alone), while
\* whenever the two calls are serialised each returns its sequential result.
C13_SerialisedSafe ==
    ~mixed =>
        \A t \in DOMAIN th :
            th[t].pc = "done" =>
                /\ th[t].err = Alone(th[t]).err
                /\ th[t].str = Alone(th[t]).str

C13_Witness ==
    /\ mixed
    /\ \A t \in DOMAIN th : th[t].pc = "done" /\ Alone(th[t]).err = Nil
    /\ \E t \in DOMAIN th : th[t].err = Nil /\ th[t].str # Alone(th[t]).str
    /\ DOMAIN th = Threads

\* the Reader and the query of last on the complete bytes of the source
Whole == NewReaderAt(fault.full, 0)
WholeQuery == QueryAt(Whole.rd, fault.full, Whole.pos, last.op, last.name, last.start, last.end)

\* a Read of the operation came up short: on the complete bytes the same
\* operation moves the cursor beyond the bytes the source holds
ShortOpen == openErr # "none" /\ Whole.err = Nil /\ Whole.pos > Len(source)
ShortQuery ==
    /\ openErr = Nil /\ last.op # "none" /\ last.name \in DOMAIN rd.index
    /\ ~fault.abs /\ ~fault.rel
    /\ WholeQuery.pos > Len(source)

\* C14: every failure of the underlying source during a Reader operation, a
\* short read or a failed Seek (the absolute one to the record or the
\* relative one to the first byte of the range), makes the operation return
\* an error and no result.
C14_SourceFailureIsError ==
    /\ ShortOpen => openErr # Nil /\ rd = "none"
    /\ (ShortQuery \/ fault.abs \/ fault.rel) =>
           /\ last.err # Nil
           /\ last.str = << >>
           /\ last.op = "Length" => last.num = -1

\* position q lies in some block of blocks
InBlock(blocks, q) == \E b \in DOMAIN blocks : b <= q /\ q < b + blocks[b]

\* the base the packed data of the record of name holds for position q
StoredBase(name, q) ==
    BYTES2NT[Slot(source[RecOf(name).pos + (q \div 4) + 1], q % 4)]

\* the symbol of position q: the stored base, N inside an N-block, and
\* then lower case inside a mask block
SymbolAt(name, q) ==
    LET up == IF InBlock(RecOf(name).rec.nBlocks, q) THEN BASE_N ELSE StoredBase(name, q)
    IN  IF InBlock(RecOf(name).rec.mBlocks, q) THEN up + 32 ELSE up

\* a ReadRange call on a well-formed record with 0 <= start < end <= dnaSize
ValidRangeCall ==
    /\ last.op = "ReadRange"
    /\ WellFormed(last.name)
    /\ 0 <= last.start /\ last.start < last.end
    /\ last.end <= RecOf(last.name).rec.dnaSize

\* C15: for a record whose intervals lie in [0, dnaSize) and do not overlap
\* within one set, and a valid range [start, end), ReadRange returns for
\* every position start <= q < end the stored base, replaced by N inside an
\* N-block and then lower-cased inside a mask block (so 'n' in both, and a
\* block that sticks out of the range acts on its positions inside only).
C15_OverlaySymbols ==
    ValidRangeCall =>
        /\ last.err = Nil
        /\ Len(last.str) = last.end - last.start
        /\ \A q \in last.start .. (last.end - 1) :
               last.str[q - last.start + 1] = SymbolAt(last.name, q)

\* the packed bytes the ReadRange call of last skips and reads
SpanOf == ReadRangeAt(rd, source, pos, last.name, last.start, last.end)

\* C16: for every valid range [start, end) of a record ReadRange skips
\* floor(start/4) packed bytes and reads exactly the bytes floor(start/4) ..
\* ceil(end/4)-1 of the packed data: it reads no byte at or beyond index
\* ceil(dnaSize/4) and does not hit the end of a complete file.
C16_MinimalSpan ==
    ValidRangeCall =>
        /\ SpanOf.shift = last.start \div 4
        /\ SpanOf.shift + SpanOf.size = CeilDiv4(last.end)
        /\ SpanOf.shift + SpanOf.size <= CeilDiv4(RecOf(last.name).rec.dnaSize)
        /\ last.err # ErrBase

\* C17: for a record whose intervals lie in [0, dnaSize) and every valid
\* range [start, end), the N-overlay and the mask-overlay only write output
\* indexes 0 .. end-start-1: no block (one that begins exactly at end, one
\* that ends exactly at start, one that extends past end) makes the overlay
\* index the output outside of it.
C17_OverlayInBounds ==
    ValidRangeCall => last.err # Panic

====
